---------------------------- MODULE Spec2Model ----------------------------
(***************************************************************************)
(* Ubuntu-NordVPN-Indicator: the status snapshot (NordVPNStatus), the      *)
(* client interface (nordvpn.py, class NordVPN) and the tray applet with   *)
(* its refresh timer (nordvpn_indicator.py).                               *)
(*                                                                         *)
(* A text is a sequence of tokens.  The tokens are the strings the code's  *)
(* patterns look for (the field labels, ":", the status literals, the      *)
(* warning phrases, the confirmation phrases), the white space characters  *)
(* " ", "\n" and other words.  Searching, capturing to the end of the      *)
(* line and stripping are computed on the token sequence as the regular    *)
(* expressions compute them on the characters.                             *)
(***************************************************************************)
EXTENDS Integers, Sequences, FiniteSets, TLC

VARIABLES
    raw_status,   \* NordVPNStatus.raw_status
    data,         \* NordVPNStatus.data
    warnings,     \* NordVPNStatus.warnings
    call,         \* the most recent call: its name, its argument, its outcome
    connected,    \* nordvpn_indicator.py, NordVPN.connected
    status,       \* nordvpn_indicator.py, NordVPN.status
    status_label, \* the text of Indicator.status_label
    icon,         \* the icon file of Indicator.indicator
    main,         \* the interface thread: where it is and what its callback has left to do
    timers,       \* the threading.Timer objects: created, pending, cancelled, running
    self_timer    \* Indicator.timer

\* The snapshot of nordvpn.py and the applet of nordvpn_indicator.py
snapshotVars == <<raw_status, data, warnings>>

appVars == <<connected, status, status_label, icon, main, timers, self_timer>>

vars == <<raw_status, data, warnings, call,
          connected, status, status_label, icon, main, timers, self_timer>>

-----------------------------------------------------------------------------
(* Bounds of the model *)

\* The most white space tokens put around a value beyond the mandatory one.
MaxPad == 1

\* The Timer objects that can be alive at a time.
MaxTimers == 3

-----------------------------------------------------------------------------
(* Text primitives *)

SP == " "
NL == "\n"

\* Python's white space: what \s matches and what str.strip() removes.
IsSpace(t) == t \in {" ", "\n", "\r", "\t"}

\* str.strip()
RECURSIVE LStrip(_)
LStrip(s) == IF s # <<>> /\ IsSpace(Head(s)) THEN LStrip(Tail(s)) ELSE s

RECURSIVE RStrip(_)
RStrip(s) ==
    IF s # <<>> /\ IsSpace(s[Len(s)]) THEN RStrip(SubSeq(s, 1, Len(s) - 1)) ELSE s

Strip(s) == RStrip(LStrip(s))

\* The positions at which the tokens of pattern pat occur in s.
Occurrences(pat, s) ==
    { i \in 1..(Len(s) - Len(pat) + 1) : SubSeq(s, i, i + Len(pat) - 1) = pat }

\* `pat in s`
Contains(pat, s) == Occurrences(pat, s) # {}

Min(S) == CHOOSE x \in S : \A y \in S : x <= y

\* The end of the line that holds position i: "." matches all but "\n".
LineEnd(s, i) ==
    LET nls == { j \in i..Len(s) : s[j] = NL }
    IN  IF nls = {} THEN Len(s) ELSE Min(nls) - 1

\* Sequence concatenation of a sequence of sequences with a separator token.
RECURSIVE JoinWith(_, _)
JoinWith(sep, parts) ==
    IF parts = <<>> THEN <<>>
    ELSE IF Len(parts) = 1 THEN parts[1]
    ELSE parts[1] \o <<sep>> \o JoinWith(sep, Tail(parts))

-----------------------------------------------------------------------------
(* ConnectionStatus and NordVPNStatus.Param *)

CONNECTED == "CONNECTED"
DISCONNECTED == "DISCONNECTED"
WAITING == "WAITING"

ConnectionStatusMembers == {CONNECTED, DISCONNECTED, WAITING}

\* ConnectionStatus(value): the member with that value, or a ValueError.
ValueError == "ValueError"

ConnectionStatus(value) ==
    IF value = <<"Connected">> THEN CONNECTED
    ELSE IF value = <<"Disconnected">> THEN DISCONNECTED
    ELSE IF value = <<"Connecting">> THEN WAITING
    ELSE ValueError

STATUS == "Status"
CURRENT_SERVER == "Current server"
COUNTRY == "Country"
CITY == "City"
IP == "Your new IP"
PROTOCOL == "Current protocol"
TRANSFER == "Transfer"
UPTIME == "Uptime"

\* Param with STATUS declared last.
ParamOrder_statusLast ==
    <<CURRENT_SERVER, COUNTRY, CITY, IP, PROTOCOL, TRANSFER, UPTIME, STATUS>>

\* The members of Param in definition order, which is the order of iteration.
ParamOrder ==
    <<STATUS, CURRENT_SERVER, COUNTRY, CITY, IP, PROTOCOL, TRANSFER, UPTIME>>

Param == { ParamOrder[i] : i \in 1..Len(ParamOrder) }

OtherParams == Param \ {STATUS}

Unknown == <<"Unknown">>


-----------------------------------------------------------------------------
(* NordVPNStatus *)

\* The search taking the last match of the label, not the first.
ParamMatch_last(param, source) ==
    LET hits == { i \in 1..(Len(source) - 2) :
                    /\ source[i] = param
                    /\ source[i + 1] = ":"
                    /\ IsSpace(source[i + 2]) }
    IN  IF hits = {} THEN 0 ELSE CHOOSE i \in hits : \A j \in hits : j <= i

\* re.search(r"{}:\s(.*)".format(param), source): the position of the first
\* match (0 when there is none).  The label is followed by ":" and by one
\* white space character, a line break included.
ParamMatch(param, source) ==
    LET hits == { i \in 1..(Len(source) - 2) :
                    /\ source[i] = param
                    /\ source[i + 1] = ":"
                    /\ IsSpace(source[i + 2]) }
    IN  IF hits = {} THEN 0 ELSE Min(hits)

\* match.group(1): everything after the white space up to the end of the line.
ParamGroup(source, i) == SubSeq(source, i + 3, LineEnd(source, i + 3))

\* _parse_param returning the empty string for a label it does not find.
ParseParam_empty(param, source, throw) ==
    LET i == ParamMatch(param, source)
    IN  IF i = 0 /\ throw THEN [raised |-> TRUE, value |-> <<>>]
        ELSE IF i = 0 THEN [raised |-> FALSE, value |-> <<>>]
        ELSE [raised |-> FALSE, value |-> Strip(ParamGroup(source, i))]

\* NordVPNStatus._parse_param: the stripped value, "Unknown", or an exception.
ParseParam(param, source, throw) ==
    LET i == ParamMatch(param, source)
    IN  IF i = 0 /\ throw THEN [raised |-> TRUE, value |-> <<>>]
        ELSE IF i = 0 THEN [raised |-> FALSE, value |-> Unknown]
        ELSE [raised |-> FALSE, value |-> Strip(ParamGroup(source, i))]

\* The except clause of NordVPNStatus.update, left out.
OnException_pass(d) == d

\* The except clause of NordVPNStatus.update: the status becomes WAITING and
\* whatever the loop has stored so far stays.
OnException(d) == [d EXCEPT ![STATUS] = WAITING]

\* The body of the try block of NordVPNStatus.update from the k-th member of
\* order on.
RECURSIVE ParseLoop(_, _, _, _)
ParseLoop(order, k, d, raw) ==
    IF k > Len(order) THEN d
    ELSE LET param == order[k]
         IN  IF param = STATUS
             THEN LET r == ParseParam(STATUS, raw, TRUE)
                      cs == ConnectionStatus(r.value)
                  IN  IF r.raised \/ cs = ValueError
                      THEN OnException(d)
                      ELSE ParseLoop(order, k + 1, [d EXCEPT ![STATUS] = cs], raw)
             ELSE ParseLoop(order, k + 1,
                            [d EXCEPT ![param] = ParseParam(param, raw, FALSE).value],
                            raw)

\* The two messages NordVPN._output_has_warnings registers.
UPDATE_MESSAGE == "Warning: new version of the nordvpn client available"
LOGIN_MESSAGE == "Warning: Please login to NordVPN"

\* Python's order of the messages as strings ("P" sorts before "n").
MessageOrder == <<LOGIN_MESSAGE, UPDATE_MESSAGE>>

Messages == { MessageOrder[i] : i \in 1..Len(MessageOrder) }

\* sorted(self.warnings)
Sorted(ws) == SelectSeq(MessageOrder, LAMBDA m : m \in ws)

\* '\n\r'.join([raw_status] + sorted(self.warnings)), a message being one token
Banner(raw, ws) ==
    JoinWith("\n\r", <<raw>> \o [i \in 1..Len(Sorted(ws)) |-> <<Sorted(ws)[i]>>])

\* NordVPNStatus.__init__
InitData == [p \in Param |-> IF p = STATUS THEN WAITING ELSE Unknown]

\* NordVPNStatus.update: the new raw_status and data
UpdateRaw(raw, ws) == IF ws # {} THEN Banner(raw, ws) ELSE raw

\* update without the return that ends the warnings branch.
UpdateData_noReturn(d, raw, ws) ==
    ParseLoop(ParamOrder, 1, IF ws # {} THEN [d EXCEPT ![STATUS] = WAITING] ELSE d, raw)

UpdateData(d, raw, ws) ==
    IF ws # {} THEN [d EXCEPT ![STATUS] = WAITING]
    ELSE ParseLoop(ParamOrder, 1, d, raw)

-----------------------------------------------------------------------------
(* The status texts the model feeds to update *)

Pad(n) == [i \in 1..n |-> SP]

FieldLine(label, value, pad) == <<label, ":", SP>> \o Pad(pad) \o value \o Pad(pad)

ValuesA ==
    [p \in OtherParams |->
        CASE p = CURRENT_SERVER -> <<"us1.nordvpn.com">>
          [] p = COUNTRY -> <<"United", SP, "States">>
          [] p = CITY -> <<"New", SP, "York">>
          [] p = IP -> <<"1.2.3.4">>
          [] p = PROTOCOL -> <<"UDP">>
          [] p = TRANSFER -> <<"1", SP, "MiB">>
          [] p = UPTIME -> <<"5", SP, "min">>]

ValuesB ==
    [p \in OtherParams |->
        CASE p = CURRENT_SERVER -> <<"nl2.nordvpn.com">>
          [] p = COUNTRY -> <<"Netherlands">>
          [] p = CITY -> <<"Amsterdam">>
          [] p = IP -> <<"5.6.7.8">>
          [] p = PROTOCOL -> <<"TCP">>
          [] p = TRANSFER -> <<"2", SP, "MiB">>
          [] p = UPTIME -> <<"9", SP, "min">>]

\* The order of the lines in the client's output.
OutputOrder ==
    <<STATUS, CURRENT_SERVER, COUNTRY, CITY, IP, PROTOCOL, TRANSFER, UPTIME>>

\* Lines joined into one text.
Lines(ls) == JoinWith(NL, SelectSeq(ls, LAMBDA l : l # <<>>))

\* The lines of the given fields.
FieldLines(params, values, pad) ==
    LET ps == SelectSeq(OutputOrder, LAMBDA p : p \in params)
    IN  Lines([i \in 1..Len(ps) |-> FieldLine(ps[i], values[ps[i]], pad)])

\* What follows the status line: nothing, all seven fields, some of them,
\* every label twice, labels with no white space after the colon, and a label
\* whose value is missing so that the next line follows the white space.
Bodies ==
    {<<>>}
    \cup { FieldLines(OtherParams, ValuesA, pad) : pad \in 0..MaxPad }
    \cup { FieldLines(OtherParams, ValuesB, MaxPad) }
    \cup { FieldLines({COUNTRY, IP, UPTIME}, ValuesA, 0) }
    \cup { Lines(<<FieldLines(OtherParams, ValuesA, 0),
                   FieldLines(OtherParams, ValuesB, 0)>>) }
    \cup { Lines(<<<<CITY, ":", "Amsterdam">>, <<COUNTRY, "Netherlands">>>>) }
    \cup { Lines(<<<<CITY, ":">>, FieldLine(COUNTRY, ValuesB[COUNTRY], 0)>>) }

\* The status line: none, one of the three literals, another value, no white
\* space after the colon, and the value on the next line.
StatusLines ==
    {<<>>}
    \cup { FieldLine(STATUS, <<"Connected">>, pad) : pad \in 0..MaxPad }
    \cup { FieldLine(STATUS, v, 0) :
             v \in {<<"Disconnected">>, <<"Connecting">>, <<"Reconnecting">>} }
    \cup { <<STATUS, ":", "Connected">> }
    \cup { <<STATUS, ":", NL, "Connected">> }

\* A status line after the body.
LastLine == FieldLine(STATUS, <<"Disconnected">>, 0)

\* The status line first, the status line last, and two status lines.
Texts ==
    { Lines(<<first, body>>) : first \in StatusLines, body \in Bodies }
    \cup { Lines(<<body, LastLine>>) : body \in Bodies }
    \cup { Lines(<<FieldLine(STATUS, <<"Connected">>, 0), body, LastLine>>) :
             body \in Bodies }

-----------------------------------------------------------------------------
(* nordvpn_indicator.py: VPN_STATUS, the controller NordVPN and the Indicator *)

VPN_CONNECTED == "VPN_STATUS.CONNECTED"
VPN_DISCONNECTED == "VPN_STATUS.DISCONNECTED"
VPN_WAITING == "VPN_STATUS.WAITING"

TimerIds == 1..MaxTimers

\* Indicator.get_icon_path
GetIconPath(c) ==
    IF c = VPN_CONNECTED THEN "nordvpn_connected.png"
    ELSE IF c = VPN_DISCONNECTED THEN "nordvpn_disconnected.png"
    ELSE "nordvpn_waiting.png"

\* NordVPN.__init__ and the menu Indicator.__init__ builds, before the first
\* status check: no Timer object yet, the interface thread at pc.
AppStart(pc) ==
    /\ connected = VPN_WAITING
    /\ status = <<>>
    /\ status_label = <<>>
    /\ icon = GetIconPath("False")
    /\ main = [pc |-> pc, k |-> 1, todo |-> <<>>, arg |-> <<>>]
    /\ timers = [id \in TimerIds |-> [state |-> "free", k |-> 0]]
    /\ self_timer = 0

-----------------------------------------------------------------------------
(* The calls on a NordVPNStatus *)

NoArg == <<>>

Init ==
    /\ raw_status = Unknown
    /\ data = InitData
    /\ warnings = {}
    /\ call = [op |-> "__init__", arg |-> NoArg]
    /\ AppStart("none")

\* NordVPNStatus.update(raw)
Update(raw) ==
    /\ raw_status' = UpdateRaw(raw, warnings)
    /\ data' = UpdateData(data, raw, warnings)
    /\ call' = [op |-> "update", arg |-> raw]
    /\ UNCHANGED <<warnings, appVars>>

\* NordVPNStatus.add_warning(message)
AddWarning(message) ==
    /\ warnings' = warnings \cup {message}
    /\ call' = [op |-> "add_warning", arg |-> <<message>>]
    /\ UNCHANGED <<raw_status, data, appVars>>

\* NordVPNStatus.clear_warnings()
ClearWarnings ==
    /\ warnings' = {}
    /\ call' = [op |-> "clear_warnings", arg |-> NoArg]
    /\ UNCHANGED <<raw_status, data, appVars>>

NextStatus ==
    \/ \E raw \in Texts : Update(raw)
    \/ \E message \in Messages : AddWarning(message)
    \/ ClearWarnings

SpecStatus == Init /\ [][NextStatus]_vars

-----------------------------------------------------------------------------
(* nordvpn.py, class NordVPN: the interface with the client application *)

UPDATE_WARNING == "A new version of NordVPN is available! Please update the application."
LOGIN_WARNING == "Please enter your login details."

\* What the process of a command does: it cannot be launched (Popen raises),
\* or it runs and writes a text.
LaunchFailure == <<"<launch failure>">>

None == <<"<None>">>

\* NordVPN._run_command: the exception of Popen leaves the method, else the
\* decoded standard output, stripped.
RunCommand(outcome) ==
    IF outcome = LaunchFailure
    THEN [raised |-> TRUE, output |-> None]
    ELSE [raised |-> FALSE, output |-> Strip(outcome)]

\* _output_has_warnings that knows the login phrase only.
OutputHasWarnings_loginOnly(output) ==
    IF Contains(<<LOGIN_WARNING>>, output)
    THEN [found |-> TRUE, message |-> LOGIN_MESSAGE]
    ELSE [found |-> FALSE, message |-> "Unknown error"]

\* NordVPN._output_has_warnings: what it returns and the message it registers.
OutputHasWarnings(output) ==
    IF Contains(<<UPDATE_WARNING>>, output)
    THEN [found |-> TRUE, message |-> UPDATE_MESSAGE]
    ELSE IF Contains(<<LOGIN_WARNING>>, output)
         THEN [found |-> TRUE, message |-> LOGIN_MESSAGE]
         ELSE [found |-> FALSE, message |-> "Unknown error"]

\* The warning set after a connect or disconnect command has written output.
WarningsAfter(ws, output) ==
    LET w == OutputHasWarnings(output)
    IN  IF w.found THEN ws \cup {w.message} ELSE {}

\* name.replace(' ', '_')
Underscored(name) == [i \in 1..Len(name) |-> IF name[i] = SP THEN "_" ELSE name[i]]

\* "nordvpn connect {}".format(...).split(): the argument vector
ConnectCommand(target) ==
    IF target = NoArg THEN <<"nordvpn", "connect">>
    ELSE <<"nordvpn", "connect">> \o Underscored(target)

\* The words of the list commands, in Python's order of the strings.
WordOrder == <<"Albania", "France", "P2P", "United States", "United_States">>

IsWord(t) == \E i \in 1..Len(WordOrder) : WordOrder[i] = t

\* NordVPN._parse_words: the runs of two or more word characters, "_" replaced
\* by " ".  A token of WordOrder is such a run; the texts of the model keep
\* two of them apart by a token that is none.
ParseWords(raw) ==
    IF raw = None THEN <<>>
    ELSE LET found == SelectSeq(raw, IsWord)
         IN  [i \in 1..Len(found) |->
                 IF found[i] = "United_States" THEN "United States" ELSE found[i]]

WordRank(w) == CHOOSE i \in 1..Len(WordOrder) : WordOrder[i] = w

\* list.sort()
RECURSIVE SortWords(_)
SortWords(ws) ==
    IF ws = <<>> THEN <<>>
    ELSE LET k == CHOOSE i \in 1..Len(ws) :
                      \A j \in 1..Len(ws) : WordRank(ws[i]) <= WordRank(ws[j])
             rest == [i \in 1..(Len(ws) - 1) |-> IF i < k THEN ws[i] ELSE ws[i + 1]]
         IN  <<ws[k]>> \o SortWords(rest)

\* get_countries, get_groups, get_cities: what is returned for an output
ListResult(output) == IF output = None THEN <<>> ELSE SortWords(ParseWords(output))

\* A setting line "<label>: <value>" found by
\* re.findall(r"(\S{2,}\s*\S*):\s*(\S+)", raw): the label is one token (of one
\* or two words), the colon follows it, then white space or none, then a token
\* that is no white space.
SettingAt(raw, i) ==
    /\ i + 2 <= Len(raw)
    /\ ~IsSpace(raw[i]) /\ raw[i] \notin {":", "-"}
    /\ raw[i + 1] = ":"
    /\ \/ ~IsSpace(raw[i + 2])
       \/ i + 3 <= Len(raw) /\ raw[i + 2] = SP /\ ~IsSpace(raw[i + 3])

SettingValue(raw, i) == IF IsSpace(raw[i + 2]) THEN raw[i + 3] ELSE raw[i + 2]

\* NordVPN._parse_settings: the dictionary {label: value}, a later line of a
\* label replacing an earlier one.
ParseSettings(raw) ==
    LET hits == { i \in 1..Len(raw) : SettingAt(raw, i) }
        keys == { raw[i] : i \in hits }
    IN  [k \in keys |->
            SettingValue(raw, CHOOSE i \in hits :
                                  raw[i] = k /\ \A j \in hits : raw[j] = k => j <= i)]

EmptyDict == [k \in {} |-> k]

-----------------------------------------------------------------------------
(* The outputs the model lets the client application write *)

ConnectedPhrase == <<"You are now connected to", SP, "France", SP, "#123">>

\* Outputs of connect and disconnect: none, a confirmation, one warning
\* phrase, the update banner before a confirmation or before the login
\* phrase.
CommandOutputs ==
    { <<>>,
      ConnectedPhrase \o <<NL>>,
      <<UPDATE_WARNING, NL>> \o ConnectedPhrase,
      <<LOGIN_WARNING>>,
      <<UPDATE_WARNING, NL, LOGIN_WARNING, NL>> }

\* Outputs of the status command: as Texts, with white space around them.
StatusOutputs ==
    { <<>> }
    \cup { Lines(<<first, body>>) \o <<NL>> :
             first \in { FieldLine(STATUS, <<"Connected">>, 0),
                         FieldLine(STATUS, <<"Disconnected">>, MaxPad),
                         FieldLine(STATUS, <<"Reconnecting">>, 0),
                         <<>> },
             body \in { <<>>, FieldLines(OtherParams, ValuesA, 0) } }
    \cup { <<NL, SP>> \o FieldLine(STATUS, <<"Connecting">>, 0) \o <<NL>>
             \o FieldLines(OtherParams, ValuesB, MaxPad) \o <<SP, NL>> }

ListOutputs ==
    { <<>>,
      <<"France", ",", SP, "Albania", ",", SP, "United_States", NL>>,
      <<"-", NL, "P2P", ",", SP, "France">> }

SettingsOutputs ==
    { <<>>,
      <<"Protocol", ":", SP, "UDP", NL, "Kill Switch", ":", SP, "disabled", NL,
        "CyberSec", ":", SP, "enabled">>,
      <<"-", NL, "Firewall", ":", SP, "enabled", NL, "Auto connect", ":", "enabled">> }

Countries == { <<"France">>, <<"United", SP, "States">> }

-----------------------------------------------------------------------------
(* The calls on a NordVPN (nordvpn.py) *)

CommandOps ==
    {"connect", "connect_to_country", "connect_to_group", "connect_to_city", "disconnect"}

InitClient ==
    /\ raw_status = Unknown
    /\ data = InitData
    /\ warnings = {}
    /\ call = [op |-> "__init__", arg |-> NoArg, command |-> <<>>,
               outcome |-> <<>>, raised |-> FALSE, result |-> None]
    /\ AppStart("none")

\* connect, connect_to_country, connect_to_group, connect_to_city, disconnect:
\* the command is run, and the warnings are cleared unless its output holds a
\* warning, which is registered.
Command(op, target, command, outcome) ==
    LET r == RunCommand(outcome)
    IN  /\ warnings' = IF r.raised THEN warnings ELSE WarningsAfter(warnings, r.output)
        /\ call' = [op |-> op, arg |-> target, command |-> command,
                    outcome |-> outcome, raised |-> r.raised, result |-> None]
        /\ UNCHANGED <<raw_status, data, appVars>>

Connect(outcome) == Command("connect", NoArg, ConnectCommand(NoArg), outcome)

ConnectToCountry(country, outcome) ==
    Command("connect_to_country", country, ConnectCommand(country), outcome)

ConnectToGroup(group, outcome) ==
    Command("connect_to_group", group, ConnectCommand(group), outcome)

ConnectToCity(city, outcome) ==
    Command("connect_to_city", city, ConnectCommand(city), outcome)

Disconnect(outcome) == Command("disconnect", NoArg, <<"nordvpn", "disconnect">>, outcome)

\* get_status: _status_check runs the status command and updates the snapshot
\* with the stripped output.
GetStatus(outcome) ==
    LET r == RunCommand(outcome)
        raw == Strip(r.output)
        skip == r.raised \/ r.output = None
    IN  /\ raw_status' = IF skip THEN raw_status ELSE UpdateRaw(raw, warnings)
        /\ data' = IF skip THEN data ELSE UpdateData(data, raw, warnings)
        /\ call' = [op |-> "get_status", arg |-> NoArg,
                    command |-> <<"nordvpn", "status">>,
                    outcome |-> outcome, raised |-> r.raised, result |-> None]
        /\ UNCHANGED <<warnings, appVars>>

\* get_countries, get_groups, get_cities(country)
GetList(op, target, command, outcome) ==
    LET r == RunCommand(outcome)
    IN  /\ call' = [op |-> op, arg |-> target, command |-> command,
                    outcome |-> outcome, raised |-> r.raised,
                    result |-> IF r.raised THEN None ELSE ListResult(r.output)]
        /\ UNCHANGED <<raw_status, data, warnings, appVars>>

GetCountries(outcome) == GetList("get_countries", NoArg, <<"nordvpn", "countries">>, outcome)

GetGroups(outcome) == GetList("get_groups", NoArg, <<"nordvpn", "groups">>, outcome)

GetCities(country, outcome) ==
    GetList("get_cities", country, <<"nordvpn", "cities">> \o Underscored(country), outcome)

\* get_settings
GetSettings(outcome) ==
    LET r == RunCommand(outcome)
    IN  /\ call' = [op |-> "get_settings", arg |-> NoArg,
                    command |-> <<"nordvpn", "settings">>,
                    outcome |-> outcome, raised |-> r.raised,
                    result |-> IF r.raised THEN None
                               ELSE IF r.output = None THEN EmptyDict
                               ELSE ParseSettings(r.output)]
        /\ UNCHANGED <<raw_status, data, warnings, appVars>>

NextClient ==
    \/ \E o \in CommandOutputs \cup {LaunchFailure} : Connect(o)
    \/ \E c \in Countries, o \in CommandOutputs \cup {LaunchFailure} : ConnectToCountry(c, o)
    \/ \E g \in {<<"P2P">>}, o \in CommandOutputs \cup {LaunchFailure} : ConnectToGroup(g, o)
    \/ \E c \in {<<"New", SP, "York">>}, o \in CommandOutputs \cup {LaunchFailure} :
          ConnectToCity(c, o)
    \/ \E o \in CommandOutputs \cup {LaunchFailure} : Disconnect(o)
    \/ \E o \in StatusOutputs \cup {LaunchFailure} : GetStatus(o)
    \/ \E o \in ListOutputs \cup {LaunchFailure} : GetCountries(o)
    \/ \E o \in ListOutputs \cup {LaunchFailure} : GetGroups(o)
    \/ \E c \in Countries, o \in ListOutputs \cup {LaunchFailure} : GetCities(c, o)
    \/ \E o \in SettingsOutputs \cup {LaunchFailure} : GetSettings(o)

SpecClient == InitClient /\ [][NextClient]_vars

-----------------------------------------------------------------------------
(* nordvpn_indicator.py: the controller's commands *)

\* output.split('  '): the parts between the double spaces
RECURSIVE SplitDouble(_)
SplitDouble(s) ==
    LET hits == { i \in 1..(Len(s) - 1) : s[i] = SP /\ s[i + 1] = SP }
    IN  IF hits = {} THEN <<s>>
        ELSE <<SubSeq(s, 1, Min(hits) - 1)>>
                 \o SplitDouble(SubSeq(s, Min(hits) + 2, Len(s)))

\* The tokens in which r'(([0-9])+\.){3}([0-9]+)' finds a match.
IsDottedQuad(t) == t \in {"1.2.3.4", "5.6.7.8"}

\* re.search('You are now connected to .*', output), read as the claim reads
\* it: the phrase anywhere in the output.
ConnectMatch_phraseOnly(output) ==
    \E i \in 1..Len(output) : output[i] = "You are now connected to"

\* re.search('You are now connected to .*', output): the phrase and a space.
ConnectMatch(output) ==
    \E i \in 1..(Len(output) - 1) :
        output[i] = "You are now connected to" /\ output[i + 1] = SP

\* re.search('You have been disconnected from NordVPN.', output): the whole
\* sentence and one more character of the line.
DisconnectMatch(output) ==
    \E i \in 1..(Len(output) - 2) :
        /\ output[i] = "You have been disconnected"
        /\ output[i + 1] = " from NordVPN"
        /\ output[i + 2] # NL

\* status_check deciding the flag only when an address is found: WAITING when
\* the output shows none.
StatusCheck_addressOnly(outcome) ==
    IF outcome = LaunchFailure \/ Len(SplitDouble(outcome)) < 2
    THEN [raised |-> TRUE, status |-> <<>>, connected |-> VPN_WAITING]
    ELSE [raised |-> FALSE,
          status |-> Strip(SplitDouble(outcome)[2]),
          connected |-> IF \E i \in 1..Len(outcome) : IsDottedQuad(outcome[i])
                        THEN VPN_CONNECTED ELSE VPN_WAITING]

\* NordVPN.run_command followed by the rest of NordVPN.status_check: Popen
\* raises when the command cannot be launched, [1] raises IndexError when the
\* output holds no double space; else the status text and the flag.
StatusCheck(outcome) ==
    IF outcome = LaunchFailure \/ Len(SplitDouble(outcome)) < 2
    THEN [raised |-> TRUE, status |-> <<>>, connected |-> VPN_WAITING]
    ELSE [raised |-> FALSE,
          status |-> Strip(SplitDouble(outcome)[2]),
          connected |-> IF \E i \in 1..Len(outcome) : IsDottedQuad(outcome[i])
                        THEN VPN_CONNECTED ELSE VPN_DISCONNECTED]

\* The flag after connect or connect_to_country has read its output.
ConnectedAfterConnect(c, outcome) ==
    IF outcome # LaunchFailure /\ ConnectMatch(outcome) THEN VPN_CONNECTED ELSE c

\* The flag after disconnect has read its output.
ConnectedAfterDisconnect(c, outcome) ==
    IF outcome # LaunchFailure /\ DisconnectMatch(outcome) THEN VPN_DISCONNECTED ELSE c

\* Outputs of the applet's commands.
AppConnectOutputs ==
    { <<"You are now connected to", SP, "France", SP, "#123", NL>>,
      <<"You are now connected to", NL>>,
      <<"Whoops!", SP, "Cannot", SP, "reach", SP, "the", SP, "server", NL>>,
      <<>> }

AppDisconnectOutputs ==
    { <<"You have been disconnected", " from NordVPN", ".", NL>>,
      <<"You have been disconnected", ".", NL>>,
      <<"You are not connected to NordVPN.", NL>>,
      <<>> }

AppStatusOutputs ==
    { <<"-", SP, SP, STATUS, ":", SP, "Connected", NL, IP, ":", SP, "1.2.3.4", NL>>,
      <<"-", SP, SP, STATUS, ":", SP, "Disconnected", NL>>,
      <<STATUS, ":", SP, "Disconnected", NL>>,
      <<>> }

AppOutputs(op) ==
    (IF op = "disconnect" THEN AppDisconnectOutputs
     ELSE IF op = "status_check" THEN AppStatusOutputs
     ELSE AppConnectOutputs) \cup {LaunchFailure}

-----------------------------------------------------------------------------
(* nordvpn_indicator.py: the refresh loop and the callbacks *)

\* status_check_loop arming the timer before it updates.
TickOrder_timerFirst == <<"timer", "start", "status_check", "redraw">>

\* The statements of Indicator.status_check_loop, update() expanded: the
\* status check (which blocks on the command), the redraw, the new Timer and
\* its start.
TickOrder == <<"status_check", "redraw", "timer", "start">>

Running(t) == t.state = "running"

Timer(state) == [state |-> state, k |-> 0]

FreeId == Min({ id \in TimerIds : timers[id].state = "free" })

\* The thread that runs a tick: the interface thread in Indicator.__init__,
\* or the thread of a Timer that has fired.
TickAt(thread) == IF thread = 0 THEN main.k ELSE timers[thread].k

TickEnabled(thread) ==
    IF thread = 0 THEN main.pc = "init" ELSE Running(timers[thread])

\* The thread after its statement: the next one, or the end of the loop body
\* (gtk.main() for the interface thread, the end of the Timer's thread).
MainAfter(thread, raised) ==
    IF thread # 0 THEN main
    ELSE IF raised THEN [main EXCEPT !.pc = "crashed", !.k = 0]
    ELSE IF main.k = Len(TickOrder) THEN [main EXCEPT !.pc = "idle", !.k = 0]
    ELSE [main EXCEPT !.k = main.k + 1]

TimersAfter(thread, raised, t) ==
    IF thread = 0 THEN t
    ELSE IF raised
         THEN [t EXCEPT ![thread] =
                  Timer(IF self_timer = thread THEN "dead" ELSE "free")]
    ELSE IF t[thread].k = Len(TickOrder) THEN [t EXCEPT ![thread] = Timer("free")]
    ELSE [t EXCEPT ![thread].k = t[thread].k + 1]

\* Indicator.update, first statement: self.nordvpn.status_check(None)
TickStatusCheck(thread, outcome) ==
    LET r == StatusCheck(outcome)
    IN  /\ TickEnabled(thread) /\ TickOrder[TickAt(thread)] = "status_check"
        /\ status' = IF r.raised THEN status ELSE r.status
        /\ connected' = IF r.raised THEN connected ELSE r.connected
        /\ main' = MainAfter(thread, r.raised)
        /\ timers' = TimersAfter(thread, r.raised, timers)
        /\ call' = [op |-> "status_check", thread |-> thread,
                    outcome |-> outcome, raised |-> r.raised]
        /\ UNCHANGED <<status_label, icon, self_timer, snapshotVars>>

\* Indicator.update, the label and the icon
TickRedraw(thread) ==
    /\ TickEnabled(thread) /\ TickOrder[TickAt(thread)] = "redraw"
    /\ status_label' = status
    /\ icon' = GetIconPath(connected)
    /\ main' = MainAfter(thread, FALSE)
    /\ timers' = TimersAfter(thread, FALSE, timers)
    /\ UNCHANGED <<connected, status, self_timer, call, snapshotVars>>

\* self.timer = threading.Timer(TIMER_SECONDS, self.status_check_loop)
TickTimer(thread) ==
    /\ TickEnabled(thread) /\ TickOrder[TickAt(thread)] = "timer"
    /\ \E id \in TimerIds : timers[id].state = "free"
    /\ LET old == self_timer
           dropped == IF old # 0 /\ timers[old].state \in {"cancelled", "dead", "created"}
                      THEN [timers EXCEPT ![old] = Timer("free")] ELSE timers
       IN  timers' = TimersAfter(thread, FALSE, [dropped EXCEPT ![FreeId] = Timer("created")])
    /\ self_timer' = FreeId
    /\ main' = MainAfter(thread, FALSE)
    /\ UNCHANGED <<connected, status, status_label, icon, call, snapshotVars>>

\* self.timer.start(): the Timer waits for its interval unless it was
\* cancelled before.
TickStart(thread) ==
    /\ TickEnabled(thread) /\ TickOrder[TickAt(thread)] = "start"
    /\ LET started == IF self_timer # 0 /\ timers[self_timer].state = "created"
                      THEN [timers EXCEPT ![self_timer] = Timer("pending")] ELSE timers
       IN  timers' = TimersAfter(thread, FALSE, started)
    /\ main' = MainAfter(thread, FALSE)
    /\ UNCHANGED <<connected, status, status_label, icon, self_timer, call, snapshotVars>>

\* The interval of a pending Timer ends: its thread calls status_check_loop.
TimerFires(id) ==
    /\ timers[id].state = "pending"
    /\ timers' = [timers EXCEPT ![id] = [state |-> "running", k |-> 1]]
    /\ UNCHANGED <<connected, status, status_label, icon, main, self_timer, call,
                   snapshotVars>>

\* A menu item is activated while the interface thread is in gtk.main().
Callback(ops, arg) ==
    /\ main.pc = "idle"
    /\ main' = [main EXCEPT !.pc = "begin", !.todo = ops, !.arg = arg]
    /\ UNCHANGED <<connected, status, status_label, icon, timers, self_timer, call,
                   snapshotVars>>

\* Indicator.auto_connect_cb
AutoConnectCb == Callback(<<"disconnect", "connect">>, NoArg)

\* Indicator.country_connect_cb
CountryConnectCb(country) == Callback(<<"disconnect", "connect_to_country">>, country)

\* The menu items bound to NordVPN.disconnect and to NordVPN.status_check
DisconnectItem == Callback(<<"disconnect">>, NoArg)

RefreshItem == Callback(<<"status_check">>, NoArg)

\* The first statements of the next operation of the callback: connect,
\* connect_to_country and disconnect set the flag, then the command is
\* launched and the thread waits for it.
Begin ==
    /\ main.pc = "begin"
    /\ connected' = IF Head(main.todo) = "status_check" THEN connected ELSE VPN_WAITING
    /\ main' = [main EXCEPT !.pc = Head(main.todo), !.todo = Tail(main.todo)]
    /\ UNCHANGED <<status, status_label, icon, timers, self_timer, call, snapshotVars>>

AppOps == {"connect", "connect_to_country", "disconnect", "status_check"}

\* The command of the operation ends and the operation reads its output; an
\* exception ends the callback, else its next operation follows.
Return(outcome) ==
    LET op == main.pc
        r == StatusCheck(outcome)
        raised == IF op = "status_check" THEN r.raised ELSE outcome = LaunchFailure
    IN  /\ op \in AppOps
        /\ outcome \in AppOutputs(op)
        /\ connected' =
              IF op = "status_check" THEN (IF r.raised THEN connected ELSE r.connected)
              ELSE IF op = "disconnect" THEN ConnectedAfterDisconnect(connected, outcome)
              ELSE ConnectedAfterConnect(connected, outcome)
        /\ status' = IF op = "status_check" /\ ~r.raised THEN r.status ELSE status
        /\ main' = IF raised \/ main.todo = <<>>
                   THEN [main EXCEPT !.pc = "idle", !.todo = <<>>, !.arg = NoArg]
                   ELSE [main EXCEPT !.pc = "begin"]
        /\ call' = [op |-> op, thread |-> 0, outcome |-> outcome, raised |-> raised]
        /\ UNCHANGED <<status_label, icon, timers, self_timer, snapshotVars>>

\* Indicator.quit: the Timer is cancelled and gtk.main() returns.
Quit ==
    /\ main.pc = "idle"
    /\ timers' = IF self_timer # 0 /\ timers[self_timer].state \in {"created", "pending"}
                 THEN [timers EXCEPT ![self_timer] = Timer("cancelled")] ELSE timers
    /\ main' = [main EXCEPT !.pc = "quit"]
    /\ UNCHANGED <<connected, status, status_label, icon, self_timer, call, snapshotVars>>

InitApp ==
    /\ raw_status = Unknown
    /\ data = InitData
    /\ warnings = {}
    /\ call = [op |-> "__init__", thread |-> 0, outcome |-> <<>>, raised |-> FALSE]
    /\ AppStart("init")

Threads == {0} \cup TimerIds

NextApp ==
    \/ \E th \in Threads, o \in AppOutputs("status_check") : TickStatusCheck(th, o)
    \/ \E th \in Threads : TickRedraw(th)
    \/ \E th \in Threads : TickTimer(th)
    \/ \E th \in Threads : TickStart(th)
    \/ \E id \in TimerIds : TimerFires(id)
    \/ AutoConnectCb
    \/ \E c \in Countries : CountryConnectCb(c)
    \/ DisconnectItem
    \/ RefreshItem
    \/ Begin
    \/ \E o \in AppConnectOutputs \cup AppDisconnectOutputs \cup AppStatusOutputs
                  \cup {LaunchFailure} : Return(o)
    \/ Quit

SpecApp == InitApp /\ [][NextApp]_vars

-----------------------------------------------------------------------------
(* The settings: nordvpn.py set_settings, set_setting, format_setting_name   *)
(* and nordvpn_indicator.py NordVPN.Settings, get_settings, set_settings     *)

\* str.lower() of a word of the model's texts
Lower(t) ==
    CASE t = "Kill" -> "kill"
      [] t = "Switch" -> "switch"
      [] t = "CyberSec" -> "cybersec"
      [] t = "Auto" -> "auto"
      [] t = "Protocol" -> "protocol"
      [] t = "Obfuscate" -> "obfuscate"
      [] t = "DNS" -> "dns"
      [] t = "True" -> "true"
      [] t = "False" -> "false"
      [] t = "Off" -> "off"
      [] t = "Automatic" -> "automatic"
      [] t = "France" -> "france"
      [] t = "United" -> "united"
      [] t = "States" -> "states"
      [] t = "TCP" -> "tcp"
      [] t = "UDP" -> "udp"
      [] OTHER -> t

LowerCase(s) == [i \in 1..Len(s) |-> Lower(s[i])]

\* s.replace(old, '')
Without(old, s) == SelectSeq(s, LAMBDA t : t # old)

\* A Python value handed to a setter: a bool or a str, and str(value).
Bool(b) == [kind |-> "bool", text |-> <<b>>]

Text(s) == [kind |-> "str", text |-> s]

Str(value) == value.text

\* format_setting_name
FormatSettingName(setting_name) ==
    LowerCase(Without("-", Without(SP, setting_name)))

\* 'nordvpn set {} {}'.format(name, args)
SetCommand(name, args) == <<"nordvpn", SP, "set", SP>> \o name \o <<SP>> \o args

\* command.split(): the argument vector, each argument the tokens between
\* white space.
RECURSIVE Split(_)
Split(s) ==
    LET t == LStrip(s)
        spaces == { i \in 1..Len(t) : IsSpace(t[i]) }
    IN  IF t = <<>> THEN <<>>
        ELSE IF spaces = {} THEN <<t>>
        ELSE <<SubSeq(t, 1, Min(spaces) - 1)>>
                 \o Split(SubSeq(t, Min(spaces), Len(t)))

\* The bound of the number of settings handed to set_settings at once.
MaxSettings == 2

\* The dictionaries handed to a setter, as the items the loop meets: up to
\* MaxSettings items of distinct keys.
Item(key, value) == [key |-> key, value |-> value]

RECURSIVE Items(_, _)
Items(pairs, n) ==
    IF n = 0 THEN { <<>> }
    ELSE LET shorter == Items(pairs, n - 1)
         IN  shorter \cup
             { d \o <<p>> : d \in { e \in shorter : Len(e) = n - 1 }, p \in pairs }

DistinctKeys(d) == \A i, j \in 1..Len(d) : i # j => d[i].key # d[j].key

SettingValues ==
    { Bool("True"), Bool("False"), Text(<<"Off">>), Text(<<"Automatic">>),
      Text(<<"France">>), Text(<<"United", SP, "States">>) }

\* A bool for the on/off settings; a bool, "Off", "Automatic" or a place for
\* the automatic connection.
SettingItems ==
    { Item(n, v) : n \in {<<"Kill", SP, "Switch">>, <<"CyberSec">>},
                   v \in {Bool("True"), Bool("False")} }
    \cup { Item(<<"Auto", "-", "connect">>, v) : v \in SettingValues }

SettingsDicts == { d \in Items(SettingItems, MaxSettings) : DistinctKeys(d) }

\* NordVPN.set_settings (nordvpn.py): one command for each item; Popen raising
\* ends the loop.
SetSettings(settings, outcome) ==
    /\ call' = [op |-> "set_settings", arg |-> settings,
                commands |-> [i \in 1..Len(settings) |->
                                 Split(SetCommand(FormatSettingName(settings[i].key),
                                                  LowerCase(Str(settings[i].value))))],
                outcome |-> outcome,
                raised |-> (settings # <<>> /\ RunCommand(outcome).raised),
                result |-> None]
    /\ UNCHANGED <<raw_status, data, warnings, appVars>>

\* NordVPN.set_setting (nordvpn.py): the arguments go into the command as
\* they are, and the words of the output are returned.
SetSetting(setting_name, setting_args, outcome) ==
    LET r == RunCommand(outcome)
        words == ParseWords(r.output)
    IN  /\ call' = [op |-> "set_setting",
                    arg |-> <<Item(setting_name, Text(setting_args))>>,
                    commands |-> <<Split(SetCommand(FormatSettingName(setting_name),
                                                    setting_args))>>,
                    outcome |-> outcome,
                    raised |-> r.raised,
                    result |-> IF r.raised THEN None
                               ELSE JoinWith(SP, [i \in 1..Len(words) |-> <<words[i]>>])]
        /\ UNCHANGED <<raw_status, data, warnings, appVars>>

\* NordVPN.Settings (nordvpn_indicator.py): the members and their values
SettingsMembers ==
    {"PROTOCOL", "KILL_SWITCH", "CYBER_SEC", "OBFUSCATE", "AUTO_CONNECT", "DNS"}

SettingsValue(member) ==
    CASE member = "PROTOCOL" -> <<"Protocol">>
      [] member = "KILL_SWITCH" -> <<"Kill", SP, "Switch">>
      [] member = "CYBER_SEC" -> <<"CyberSec">>
      [] member = "OBFUSCATE" -> <<"Obfuscate">>
      [] member = "AUTO_CONNECT" -> <<"Auto", SP, "connect">>
      [] member = "DNS" -> <<"DNS">>

\* NordVPN.Settings(key): the member of that value, or ValueError
Settings(key) ==
    IF \E m \in SettingsMembers : SettingsValue(m) = key
    THEN CHOOSE m \in SettingsMembers : SettingsValue(m) = key
    ELSE ValueError

\* Python's True and False in a returned dictionary
True == "True"
False == "False"

\* str.split(sep): the parts between the separators, at least one
RECURSIVE SplitOn(_, _)
SplitOn(sep, s) ==
    LET hits == { i \in 1..Len(s) : s[i] = sep }
    IN  IF hits = {} THEN <<s>>
        ELSE <<SubSeq(s, 1, Min(hits) - 1)>>
                 \o SplitOn(sep, SubSeq(s, Min(hits) + 1, Len(s)))

\* str.splitlines(): the lines, none for the end of the text
Splitlines(s) ==
    IF s = <<>> THEN <<>>
    ELSE IF s[Len(s)] = NL THEN SplitOn(NL, SubSeq(s, 1, Len(s) - 1))
    ELSE SplitOn(NL, s)

\* settings[key] = value
DictSet(d, key, value) ==
    [k \in DOMAIN d \cup {key} |-> IF k = key THEN value ELSE d[k]]

\* The loop of NordVPN.get_settings (nordvpn_indicator.py) over the lines:
\* [1] raises IndexError on a line without a colon, Settings(key) raises
\* ValueError on a label that is no member's value.
RECURSIVE ReadSettings(_, _)
ReadSettings(lines, settings) ==
    IF lines = <<>> THEN [raised |-> FALSE, settings |-> settings]
    ELSE LET parts == SplitOn(":", Head(lines))
             key == Strip(parts[1])
             value == Strip(parts[2])
             coded == IF key = SettingsValue("PROTOCOL")
                      THEN (IF value = <<"TCP">> THEN <<"enabled">> ELSE <<"disabled">>)
                      ELSE value
         IN  IF Len(parts) < 2 \/ Settings(key) = ValueError
             THEN [raised |-> TRUE, settings |-> settings]
             ELSE ReadSettings(Tail(lines),
                               DictSet(settings, Settings(key),
                                       IF coded = <<"enabled">> THEN True ELSE False))

\* output.splitlines()[3:]
From3(lines) == SubSeq(lines, 4, Len(lines))

\* Outputs of `nordvpn settings` as the applet reads them: three lines, then
\* the settings.
AppHeader == <<"-", NL, "-", NL, "-", NL>>

AppSettingsOutputs ==
    { <<>>,
      <<"-", NL>>,
      AppHeader \o <<"Protocol", ":", SP, "TCP", NL, "Kill", SP, "Switch", ":", SP,
                     "enabled", NL, "CyberSec", ":", SP, "disabled", NL>>,
      AppHeader \o <<"Protocol", ":", SP, "UDP", NL, "Auto", SP, "connect", ":", SP,
                     "enabled", NL, "Obfuscate", ":", "on", NL>>,
      AppHeader \o <<"Kill", SP, "Switch", ":", SP, "enabled", NL, "Firewall", ":", SP,
                     "enabled", NL>>,
      AppHeader \o <<"CyberSec", ":", SP, "enabled", NL, NL, "DNS", ":", SP,
                     "disabled", NL>> }

\* NordVPN.get_settings (nordvpn_indicator.py)
AppGetSettings(outcome) ==
    LET r == IF outcome = LaunchFailure
             THEN [raised |-> TRUE, settings |-> EmptyDict]
             ELSE ReadSettings(From3(Splitlines(outcome)), EmptyDict)
    IN  /\ call' = [op |-> "app_get_settings", arg |-> <<>>, commands |-> <<>>,
                    outcome |-> outcome, raised |-> r.raised,
                    result |-> IF r.raised THEN None ELSE r.settings]
        /\ UNCHANGED <<raw_status, data, warnings, appVars>>

\* What the settings window hands to set_settings: the text of the protocol,
\* a bool for the others.
AppSettingItems ==
    { Item(m, v) : m \in {"KILL_SWITCH", "OBFUSCATE", "AUTO_CONNECT"},
                   v \in {Bool("True"), Bool("False")} }
    \cup { Item("PROTOCOL", Text(<<"UDP">>)), Item("PROTOCOL", Text(<<"TCP">>)) }

AppSettingsDicts == { d \in Items(AppSettingItems, MaxSettings) : DistinctKeys(d) }

\* NordVPN.set_settings (nordvpn_indicator.py)
AppSetSettings(settings, outcome) ==
    /\ call' = [op |-> "app_set_settings", arg |-> settings,
                commands |-> [i \in 1..Len(settings) |->
                                 Split(SetCommand(
                                     LowerCase(Without(SP, SettingsValue(settings[i].key))),
                                     LowerCase(Str(settings[i].value))))],
                outcome |-> outcome,
                raised |-> (settings # <<>> /\ outcome = LaunchFailure),
                result |-> None]
    /\ UNCHANGED <<raw_status, data, warnings, appVars>>

SetOutputs == { <<"France", ",", SP, "Albania", NL>>, LaunchFailure }

NextSettings ==
    \/ \E o \in SettingsOutputs \cup {LaunchFailure} : GetSettings(o)
    \/ \E d \in SettingsDicts, o \in SetOutputs : SetSettings(d, o)
    \/ \E p \in SettingItems, o \in SetOutputs :
          SetSetting(p.key, Str(p.value), o)
    \/ \E o \in AppSettingsOutputs \cup {LaunchFailure} : AppGetSettings(o)
    \/ \E d \in AppSettingsDicts, o \in SetOutputs : AppSetSettings(d, o)

SpecSettings == InitClient /\ [][NextSettings]_vars

-----------------------------------------------------------------------------
(* Reading a status text line by line: what the claims say of a text,        *)
(* computed from its lines and not by the search of _parse_param.            *)

HasToken(t, text) == \E i \in 1..Len(text) : text[i] = t

RECURSIVE SplitLines(_)
SplitLines(text) ==
    IF ~HasToken(NL, text) THEN <<text>>
    ELSE LET i == CHOOSE j \in 1..Len(text) :
                      text[j] = NL /\ \A k \in 1..(j - 1) : text[k] # NL
         IN  <<SubSeq(text, 1, i - 1)>> \o SplitLines(SubSeq(text, i + 1, Len(text)))

\* The text between the first and the last token that is not white space.
Trimmed(s) ==
    LET solid == { i \in 1..Len(s) : ~IsSpace(s[i]) }
    IN  IF solid = {} THEN <<>>
        ELSE SubSeq(s, Min(solid), CHOOSE i \in solid : \A j \in solid : j <= i)

\* A line "<label>: <value>" with a value that holds no label and no colon.
IsFieldLine(line, label) ==
    /\ Len(line) >= 4
    /\ line[1] = label /\ line[2] = ":" /\ line[3] = SP
    /\ Trimmed(SubSeq(line, 4, Len(line))) # <<>>
    /\ \A i \in 4..Len(line) : line[i] \notin Param \cup {":"}

LabelFree(line) == \A i \in 1..Len(line) : line[i] \notin Param

\* The trimmed text after the label on the first line that starts with it.
LineValue(label, text) ==
    LET ls == SplitLines(text)
        k == Min({ j \in 1..Len(ls) : IsFieldLine(ls[j], label) })
    IN  Trimmed(SubSeq(ls[k], 4, Len(ls[k])))

\* All eight labels are there, each line that holds a label is a field line,
\* and the status value is one of the three literals.
WellFormed(text) ==
    LET ls == SplitLines(text)
    IN  /\ \A k \in 1..Len(ls) :
              LabelFree(ls[k]) \/ \E label \in Param : IsFieldLine(ls[k], label)
        /\ \A label \in Param : \E k \in 1..Len(ls) : IsFieldLine(ls[k], label)
        /\ LineValue(STATUS, text)
              \in {<<"Connected">>, <<"Disconnected">>, <<"Connecting">>}

\* What follows the first "<label>:<white space>" up to the end of the line,
\* read from left to right; NoValue when the text holds no such place.
NoValue == <<"<no value>">>

RECURSIVE ToLineEnd(_)
ToLineEnd(s) ==
    IF s = <<>> \/ Head(s) = NL THEN <<>> ELSE <<Head(s)>> \o ToLineEnd(Tail(s))

RECURSIVE Captured(_, _)
Captured(label, text) ==
    IF Len(text) < 3 THEN NoValue
    ELSE IF text[1] = label /\ text[2] = ":" /\ IsSpace(text[3])
         THEN Trimmed(ToLineEnd(SubSeq(text, 4, Len(text))))
         ELSE Captured(label, Tail(text))

StatusLiterals == {<<"Connected">>, <<"Disconnected">>, <<"Connecting">>}

\* The status label is missing, or what it captures is no status literal.
StatusFails(text) ==
    \/ ~HasToken(STATUS, text)
    \/ Captured(STATUS, text) \notin StatusLiterals

Updated == call.op = "update"

-----------------------------------------------------------------------------
(* C1 *)

\* C1: after update(raw) on a text whose status label is absent, or whose
\* captured status value is none of "Connected", "Disconnected" and
\* "Connecting", the snapshot's status is WAITING.
C1_StatusFailureGivesWaiting ==
    (Updated /\ StatusFails(call.arg)) => data[STATUS] = WAITING

\* update has run with no warning on a text that holds the other labels and
\* the status value "Reconnecting".
C1_Witness ==
    /\ Updated /\ warnings = {}
    /\ Captured(STATUS, call.arg) = <<"Reconnecting">>
    /\ HasToken(COUNTRY, call.arg)
    /\ data[STATUS] = WAITING

-----------------------------------------------------------------------------
(* C2 *)

Count(t, text) == Cardinality({ i \in 1..Len(text) : text[i] = t })

Position(t, text) == Min({ i \in 1..Len(text) : text[i] = t })

\* text is raw followed by one entry per message of ws, each after the
\* separator "\n\r", each once, the entries in the order of the strings.
IsBannerOf(text, raw, ws) ==
    /\ Len(text) = Len(raw) + 2 * Cardinality(ws)
    /\ SubSeq(text, 1, Len(raw)) = raw
    /\ \A m \in Messages : Count(m, text) = (IF m \in ws THEN 1 ELSE 0)
    /\ \A m \in ws : Position(m, text) > Len(raw) + 1
                     /\ text[Position(m, text) - 1] = "\n\r"
    /\ ({LOGIN_MESSAGE, UPDATE_MESSAGE} \subseteq ws
          => Position(LOGIN_MESSAGE, text) < Position(UPDATE_MESSAGE, text))

\* C2: an update made while the warning set is not empty extracts no field: the
\* seven other fields keep their values, the status becomes WAITING and the
\* displayed text is the raw text followed by every distinct warning once, in
\* sorted order, each as an entry of its own.
C2_WarningsSkipExtraction ==
    [][(call'.op = "update" /\ warnings # {}) =>
          /\ \A p \in OtherParams : data'[p] = data[p]
          /\ data'[STATUS] = WAITING
          /\ IsBannerOf(raw_status', call'.arg, warnings)]_vars

\* update has run with both warnings registered on a well-formed "Connected"
\* text naming another country than the snapshot holds.
C2_Witness ==
    /\ Updated /\ warnings = Messages
    /\ WellFormed(call.arg)
    /\ LineValue(STATUS, call.arg) = <<"Connected">>
    /\ LineValue(COUNTRY, call.arg) = <<"Netherlands">>
    /\ data[COUNTRY] = <<"United", SP, "States">>
    /\ data[STATUS] = WAITING
    /\ Len(raw_status) = Len(call.arg) + 4

-----------------------------------------------------------------------------
(* C3 *)

\* C3: with no warning, an update on a text that holds all eight labels, each
\* with a well-formed value, sets every other field to the trimmed text after
\* the first occurrence of its label and the status to the member whose
\* literal is the status value.
C3_WellFormedTextIsParsed ==
    (Updated /\ warnings = {} /\ WellFormed(call.arg)) =>
        /\ \A p \in OtherParams : data[p] = LineValue(p, call.arg)
        /\ LineValue(STATUS, call.arg) = <<"Connected">> => data[STATUS] = CONNECTED
        /\ LineValue(STATUS, call.arg) = <<"Disconnected">> => data[STATUS] = DISCONNECTED
        /\ LineValue(STATUS, call.arg) = <<"Connecting">> => data[STATUS] = WAITING

\* update has run on a well-formed text that holds every label twice: the
\* first status line says Connected, the last Disconnected.
C3_Witness ==
    /\ Updated /\ warnings = {} /\ WellFormed(call.arg)
    /\ Count(COUNTRY, call.arg) = 2 /\ Count(STATUS, call.arg) = 2
    /\ HasToken("Netherlands", call.arg)
    /\ data[COUNTRY] = <<"United", SP, "States">>
    /\ data[STATUS] = CONNECTED

-----------------------------------------------------------------------------
(* C4 *)

\* C4: an update that aborts on the status (label missing, or a value that is
\* no known literal) leaves the seven other fields as they were; the status
\* becomes WAITING and the stored raw text the new text.
C4_AbortKeepsOtherFields ==
    [][(call'.op = "update" /\ warnings = {} /\ StatusFails(call'.arg)) =>
          /\ \A p \in OtherParams : data'[p] = data[p]
          /\ data'[STATUS] = WAITING
          /\ raw_status' = call'.arg]_vars

\* update has aborted on a text with no status label and a valid Country
\* line, and the snapshot still holds the country of an earlier text.
C4_Witness ==
    /\ Updated /\ warnings = {}
    /\ ~HasToken(STATUS, call.arg)
    /\ \E k \in 1..Len(SplitLines(call.arg)) :
          IsFieldLine(SplitLines(call.arg)[k], COUNTRY)
    /\ LineValue(COUNTRY, call.arg) = <<"Netherlands">>
    /\ data[COUNTRY] = <<"United", SP, "States">>
    /\ data[STATUS] = WAITING

-----------------------------------------------------------------------------
(* C5 *)

IsString(v) == DOMAIN v = 1..Len(v) /\ \A i \in 1..Len(v) : v[i] \in STRING

SnapshotPopulated ==
    /\ DOMAIN data = Param
    /\ data[STATUS] \in ConnectionStatusMembers
    /\ \A p \in OtherParams : IsString(data[p])

\* The update parsed its text: no warning, and a status literal was captured.
Parsed == Updated /\ warnings = {} /\ ~StatusFails(call.arg)

\* C5: all eight fields are always there, the status a ConnectionStatus
\* member and the others strings; a field whose label a parsed text does not
\* hold is "Unknown"; until the first update the seven are "Unknown" and the
\* status is WAITING.
C5_SnapshotAlwaysPopulated ==
    /\ data = [p \in Param |-> IF p = STATUS THEN WAITING ELSE Unknown]
    /\ []SnapshotPopulated
    /\ [](Parsed => \A p \in OtherParams :
                       Captured(p, call.arg) = NoValue => data[p] = Unknown)
    /\ [][call'.op # "update" => data' = data]_vars

\* update has parsed a text that holds three of the seven other labels, after
\* a text that held them all.
C5_Witness ==
    /\ Parsed
    /\ ~HasToken(CITY, call.arg) /\ HasToken(COUNTRY, call.arg)
    /\ data[CITY] = Unknown /\ data[COUNTRY] = <<"United", SP, "States">>
    /\ data[STATUS] = DISCONNECTED

-----------------------------------------------------------------------------
(* C6 *)

HasPhrase(phrase, text) == \E i \in 1..Len(text) : text[i] = phrase

\* The call was one of the five commands and its process ran.
CommandRan(c) == c.op \in CommandOps /\ c.outcome # LaunchFailure

\* C6: after connect, connect_to_country, connect_to_group, connect_to_city
\* or disconnect, the warning set is empty if the output holds neither
\* phrase; if it holds one, the message of that phrase is in the set and no
\* earlier warning has been removed.
C6_WarningsFollowOutput ==
    [][CommandRan(call') =>
          /\ (~HasPhrase(UPDATE_WARNING, call'.outcome)
                /\ ~HasPhrase(LOGIN_WARNING, call'.outcome)) => warnings' = {}
          /\ HasPhrase(UPDATE_WARNING, call'.outcome)
                => (UPDATE_MESSAGE \in warnings' /\ warnings \subseteq warnings')
          /\ HasPhrase(LOGIN_WARNING, call'.outcome)
                => (LOGIN_MESSAGE \in warnings' /\ warnings \subseteq warnings')]_vars

-----------------------------------------------------------------------------
(* C7 *)

StatusChecked == call.op = "get_status" /\ call.outcome # LaunchFailure

CleanOutput(text) ==
    ~HasPhrase(UPDATE_WARNING, text) /\ ~HasPhrase(LOGIN_WARNING, text)

\* C7: while a warning is registered, every status check reports WAITING and
\* the raw text followed by the warnings, whatever the status command writes;
\* a registered warning stays until a connect or disconnect command whose
\* output holds no warning phrase; with no warning left, a status check on
\* well-formed output reports the parsed status.
C7_WarningPersistsUntilCleanCommand ==
    /\ []((StatusChecked /\ warnings # {}) =>
             /\ data[STATUS] = WAITING
             /\ IsBannerOf(raw_status, Trimmed(call.outcome), warnings))
    /\ [][~(warnings \subseteq warnings') =>
             (CommandRan(call') /\ CleanOutput(call'.outcome) /\ warnings' = {})]_vars
    /\ []((StatusChecked /\ warnings = {} /\ WellFormed(Trimmed(call.outcome))) =>
             /\ raw_status = Trimmed(call.outcome)
             /\ LineValue(STATUS, raw_status) = <<"Connected">> => data[STATUS] = CONNECTED
             /\ LineValue(STATUS, raw_status) = <<"Disconnected">>
                   => data[STATUS] = DISCONNECTED
             /\ LineValue(STATUS, raw_status) = <<"Connecting">> => data[STATUS] = WAITING)

\* A status check has run on a well-formed "Status: Connected" output while
\* both warnings were registered, after an earlier check had parsed the
\* fields.
C7_Witness ==
    /\ StatusChecked /\ warnings = Messages
    /\ WellFormed(Trimmed(call.outcome))
    /\ LineValue(STATUS, Trimmed(call.outcome)) = <<"Connected">>
    /\ data[STATUS] = WAITING
    /\ data[COUNTRY] = <<"United", SP, "States">>
    /\ HasPhrase(LOGIN_MESSAGE, raw_status) /\ HasPhrase(UPDATE_MESSAGE, raw_status)

-----------------------------------------------------------------------------
(* C8 *)

\* The step in which an operation of the controller starts, and the step in
\* which its command has ended and it has read the output (call' holds it).
Begins(ops) == main.pc = "begin" /\ main'.pc \in ops

Returns(ops) == main.pc \in ops /\ main'.pc # main.pc

PhraseThen(phrase, next, text) ==
    \E i \in 1..(Len(text) - 1) : text[i] = phrase /\ text[i + 1] \in next

\* The whole sentence of the disconnect pattern and a character after it.
DisconnectedSentence(text) ==
    \E i \in 1..(Len(text) - 2) :
        /\ text[i] = "You have been disconnected" /\ text[i + 1] = " from NordVPN"
        /\ text[i + 2] # NL

-----------------------------------------------------------------------------
(* C9 *)

NoOutput(c) == c.outcome = LaunchFailure \/ Trimmed(c.outcome) = <<>>

\* C9: a command that cannot be launched or writes nothing never makes a call
\* raise: the list getters return the empty list, get_settings the empty
\* mapping, the status check leaves the snapshot as it was or at
\* "Unknown"/WAITING, connect and disconnect leave the warnings and the
\* snapshot unchanged.
C9_FailureIsNeverFatal ==
    [][NoOutput(call') =>
          /\ ~call'.raised
          /\ call'.op \in {"get_countries", "get_groups", "get_cities"}
                => call'.result = <<>>
          /\ call'.op = "get_settings" => call'.result = EmptyDict
          /\ call'.op = "get_status"
                => (data' = data
                    \/ (data'[STATUS] = WAITING /\ \A p \in OtherParams :
                           data'[p] \in {data[p], Unknown}))
          /\ call'.op \in CommandOps
                => (warnings' = warnings /\ data' = data
                    /\ raw_status' = raw_status)]_vars

-----------------------------------------------------------------------------
(* C10 *)

\* The Timers that wait for their interval, and those created or waiting.
PendingTimers == { id \in TimerIds : timers[id].state = "pending" }

ArmedTimers == { id \in TimerIds : timers[id].state \in {"created", "pending"} }

\* The threads whose tick has not finished its status check and its redraw.
TicksAtWork ==
    { th \in Threads : TickEnabled(th)
                       /\ TickOrder[TickAt(th)] \in {"status_check", "redraw"} }

\* The Timer threads in their status check: the status commands they run.
TimerStatusChecks ==
    { id \in TimerIds : Running(timers[id]) /\ TickOrder[timers[id].k] = "status_check" }

\* C10: a Timer is armed only when the work of the current tick (the blocking
\* status command and the redraw) is over: at most one Timer is pending, at
\* most one timer-driven status check is in flight, and so at most one
\* external process launched by a Timer runs.
C10_OneTimerOneTick ==
    /\ Cardinality(PendingTimers) <= 1
    /\ Cardinality(TimerStatusChecks) <= 1
    /\ Cardinality({ id \in TimerIds : Running(timers[id]) }) <= 1
    /\ ArmedTimers # {} => TicksAtWork = {}

\* A Timer's thread waits for the status command, after an earlier tick has
\* drawn the label, while the interface thread waits for a connect command.
C10_Witness ==
    /\ TimerStatusChecks # {}
    /\ status_label # <<>>
    /\ main.pc = "connect"
    /\ ArmedTimers = {}

-----------------------------------------------------------------------------
(* C16 *)

\* The step in which a status check ends: the one of a menu callback on the
\* interface thread, or the one of a tick (call' holds its output).
TickChecks(th) ==
    /\ TickEnabled(th) /\ TickOrder[TickAt(th)] = "status_check"
    /\ IF th = 0 THEN main' # main ELSE timers'[th] # timers[th]

StatusCheckEnds == Returns({"status_check"}) \/ \E th \in Threads : TickChecks(th)

\* An address of four dotted numbers among the tokens of an output.
Addresses == {"1.2.3.4", "5.6.7.8"}

ShowsAddress(text) == \E i \in 1..Len(text) : text[i] \in Addresses

\* C16: every status_check that completes leaves the flag CONNECTED when its
\* output holds a dotted-quad address and DISCONNECTED when it holds none,
\* never WAITING, whatever the flag was before: the flag after a status check
\* depends on that status output alone.
C16_StatusCheckDecidesFlag ==
    [][StatusCheckEnds /\ ~call'.raised
          => /\ call'.op = "status_check"
             /\ connected' = (IF ShowsAddress(call'.outcome)
                              THEN VPN_CONNECTED ELSE VPN_DISCONNECTED)]_vars

\* A Timer's status check has read an output without an address while the
\* interface thread waits for its connect command, which had set the flag
\* WAITING: the flag is DISCONNECTED.
C16_Witness ==
    /\ call.op = "status_check" /\ call.thread # 0 /\ ~call.raised
    /\ ~ShowsAddress(call.outcome)
    /\ main.pc = "connect"
    /\ connected = VPN_DISCONNECTED

-----------------------------------------------------------------------------
(* C11 *)

\* The steps of a tick, on whichever thread runs it.
TickStep ==
    \E th \in Threads :
        \/ \E o \in AppOutputs("status_check") : TickStatusCheck(th, o)
        \/ TickRedraw(th)
        \/ TickTimer(th)
        \/ TickStart(th)

\* The refresh loop under its scheduling: a thread inside status_check_loop
\* goes on to its next statement (the status command ends), and a Timer that
\* waits for its interval fires unless it is cancelled.
SpecAppFair ==
    /\ SpecApp
    /\ WF_vars(TickStep)
    /\ WF_vars(\E id \in TimerIds : TimerFires(id))

\* The last status check was the one of a tick and the status command wrote
\* an output (it was launched): the check raised on it, or the tick is at the
\* statements that follow it.
TickReadOutput ==
    /\ call.op = "status_check" /\ call.outcome # LaunchFailure
    /\ IF call.thread = 0 THEN main.pc \in {"init", "crashed"}
       ELSE TRUE
    /\ \/ call.raised
       \/ TickEnabled(call.thread) /\ TickAt(call.thread) > 1

\* C11: whatever the status command writes (no status label, no double space,
\* nothing at all), the tick that reads it completes and the next tick is
\* scheduled: a Timer comes to wait for its interval, unless the applet quits.
C11_RefreshLoopSurvives ==
    [](TickReadOutput => <>(PendingTimers # {} \/ main.pc = "quit"))

-----------------------------------------------------------------------------
(* C12 *)

\* C12: the refresh task and the operations of the menu run on one thread:
\* every operation that writes the shared state (the flag, the status text) is
\* made by the interface thread, and no status check of a Timer is in flight
\* while a connect, a disconnect or a status check of the menu waits for its
\* command.
C12_OneThreadMutates ==
    /\ call.thread = 0
    /\ main.pc \in AppOps => TimerStatusChecks = {}

-----------------------------------------------------------------------------
(* C15 *)

\* C15: once Indicator.quit has run the refresh loop is stopped, whatever a
\* Timer thread was doing when quit ran: no status check ends after it and no
\* Timer is created or comes to wait for its interval.
C15_QuitStopsRefresh ==
    [][main.pc = "quit"
          => /\ ~StatusCheckEnds
             /\ ArmedTimers' \subseteq ArmedTimers
             /\ PendingTimers' \subseteq PendingTimers]_vars

-----------------------------------------------------------------------------
(* C13 *)

\* The display name of the setting of an item: the applet's setter is handed
\* members of Settings, the client's setters the names.
DisplayName(op, key) == IF op = "app_set_settings" THEN SettingsValue(key) ELSE key

IsAutoConnect(name) == name \in { <<"Auto", "-", "connect">>, <<"Auto", SP, "connect">> }

\* The name argument of the command, for the names of the model: the
\* display name without spaces and hyphens, in lower case.
NameArgument(name) ==
    CASE name = <<"Kill", SP, "Switch">> -> <<"kill", "switch">>
      [] name = <<"CyberSec">> -> <<"cybersec">>
      [] name = <<"Obfuscate">> -> <<"obfuscate">>
      [] name = <<"Protocol">> -> <<"protocol">>
      [] IsAutoConnect(name) -> <<"auto", "connect">>

\* The value arguments the claim names: for the automatic connection "Off"
\* gives false, "Automatic" gives true, a place gives on and its name in lower
\* case; for the other settings a bool gives true or false.
ValueNamed(name, value) ==
    IF IsAutoConnect(name) THEN value.kind = "str" ELSE value.kind = "bool"

ValueArguments(name, value) ==
    CASE value = Text(<<"Off">>) -> << <<"false">> >>
      [] value = Text(<<"Automatic">>) -> << <<"true">> >>
      [] value = Text(<<"France">>) -> << <<"on">>, <<"france">> >>
      [] value = Text(<<"United", SP, "States">>) -> << <<"on">>, <<"united">>, <<"states">> >>
      [] value = Bool("True") -> << <<"true">> >>
      [] value = Bool("False") -> << <<"false">> >>

\* C13: every command of a setter is `nordvpn set`, the display name of the
\* setting without spaces and hyphens in lower case, and the value token: for
\* the automatic connection false for "Off", true for "Automatic", on and the
\* lower-cased name for any other string; true or false for a bool of any
\* other setting.
C13_SetCommandFormat ==
    call.op \in {"set_settings", "set_setting", "app_set_settings"} =>
        \A i \in 1..Len(call.arg) :
            LET name == DisplayName(call.op, call.arg[i].key)
                value == call.arg[i].value
                argv == call.commands[i]
            IN  /\ Len(argv) >= 3
                /\ SubSeq(argv, 1, 3) = << <<"nordvpn">>, <<"set">>, NameArgument(name) >>
                /\ (call.op # "set_setting" /\ ValueNamed(name, value))
                      => SubSeq(argv, 4, Len(argv)) = ValueArguments(name, value)

-----------------------------------------------------------------------------
(* C14 *)

KnownLabels == {"Protocol", "Kill Switch", "CyberSec", "Obfuscate", "Auto connect", "DNS"}

\* The value written after the last `label:` of a text: the first token after
\* the colon that is no white space.
ValueAfter(label, text) ==
    LET at == { i \in Occurrences(label \o <<":">>, text) :
                  \E j \in (i + Len(label) + 1)..Len(text) : ~IsSpace(text[j]) }
        last == CHOOSE i \in at : \A j \in at : j <= i
        from == last + Len(label) + 1
    IN  IF at = {} THEN ""
        ELSE text[Min({ j \in from..Len(text) : ~IsSpace(text[j]) })]

\* The label of a key of a returned dictionary, as the text holds it.
LabelOf(op, key) == IF op = "app_get_settings" THEN SettingsValue(key) ELSE <<key>>

IsProtocol(op, key) == LabelOf(op, key) = <<"Protocol">>

\* C14: whatever the settings command writes, get_settings returns a mapping
\* (a line of an unknown label does not make it fail) whose keys are known
\* settings only, and in which an on/off setting is True exactly when the value
\* of its line is "enabled", False otherwise.
C14_SettingsParsed ==
    (call.op \in {"get_settings", "app_get_settings"} /\ call.outcome # LaunchFailure) =>
        /\ ~call.raised
        /\ DOMAIN call.result \subseteq
              (IF call.op = "app_get_settings" THEN SettingsMembers ELSE KnownLabels)
        /\ \A k \in DOMAIN call.result :
              ~IsProtocol(call.op, k) =>
                  call.result[k] = (IF ValueAfter(LabelOf(call.op, k), call.outcome)
                                          = "enabled"
                                    THEN True ELSE False)

=============================================================================
